---- MODULE Spec2Model ----
(***************************************************************************)
(* Model of divide_polygon.py: the sweep that slices a convex polygon into *)
(* trapezoids (_dividing_polygon_segs), the equal-area partitioner         *)
(* (_divide_polygon) and the frame adapter (divide_polygon).               *)
(*                                                                         *)
(* Numbers are exact rationals <<num, den>> (den > 0, lowest terms).  The  *)
(* one irrational operation of the program, sqrt, is exact on rational     *)
(* squares; a run that needs any other square root stops in the state      *)
(* pc = "irrational", which lies outside the exact arithmetic modelled.    *)
(* Point objects live on a heap, because _rotate_coord mutates them.       *)
(***************************************************************************)
EXTENDS Integers, Sequences, FiniteSets, TLC

\* ------------------------------------------------------------- bounds ----
MaxX == 3          \* interior vertices have x in 1..MaxX
MaxY == 2          \* interior vertices have y in -LowY..MaxY
LowY == 1
MaxH == 2          \* the reference edge runs from (0,0) up to (0,H), H in 1..MaxH
MaxVerts == 5      \* canonical polygons have 3..MaxVerts vertices
MaxN == 4          \* divisors n in 1..MaxN for canonical polygons
MaxRectW == 4      \* rectangles (0,0),(w,0),(w,h),(0,h) with w in 1..MaxRectW
MaxRectH == 4      \* ... and h in 1..MaxRectH
MaxAnyLen == 4     \* arbitrary vertex lists have 0..MaxAnyLen points
MaxAnyX == 2       \* ... with x in 0..MaxAnyX
MaxAnyY == 1       \* ... and y in 0..MaxAnyY
MaxFrameVerts == 4 \* divide_polygon is run on polygons of 3..MaxFrameVerts vertices
MaxFrameN == 2     \* ... with n in 0..MaxFrameN

\* -------------------------------------------------- exact arithmetic ----
Abs(k) == IF k < 0 THEN -k ELSE k

RECURSIVE GCD(_, _)
GCD(a, b) == IF b = 0 THEN a ELSE GCD(b, a % b)

Norm(nu, de) ==
    LET g == GCD(Abs(nu), Abs(de))
        s == IF de < 0 THEN -1 ELSE 1
    IN  <<(s * nu) \div g, (s * de) \div g>>

R(k) == <<k, 1>>
\* common factors are cancelled before multiplying, to keep the integers small
RAdd(a, b) ==
    LET g == GCD(a[2], b[2])
    IN  Norm(a[1] * (b[2] \div g) + b[1] * (a[2] \div g), (a[2] \div g) * b[2])
RNeg(a) == <<-a[1], a[2]>>
RSub(a, b) == RAdd(a, RNeg(b))
RMul(a, b) ==
    LET g == GCD(Abs(a[1]), b[2])
        h == GCD(Abs(b[1]), a[2])
    IN  Norm((a[1] \div g) * (b[1] \div h), (a[2] \div h) * (b[2] \div g))
RInv(a) == IF a[1] < 0 THEN <<-a[2], -a[1]>> ELSE <<a[2], a[1]>>
RDiv(a, b) == RMul(a, RInv(b))
RAbs(a) == <<Abs(a[1]), a[2]>>
RLt(a, b) ==
    LET g == GCD(a[2], b[2])
    IN  a[1] * (b[2] \div g) < b[1] * (a[2] \div g)
RLe(a, b) == ~RLt(b, a)
RZero(a) == a[1] = 0

\* integer square root by bisection: lo * lo <= k < hi * hi throughout
RECURSIVE ISqrtBetween(_, _, _)
ISqrtBetween(k, lo, hi) ==
    IF hi - lo <= 1 THEN lo
    ELSE LET mid == (lo + hi) \div 2
         IN  IF mid * mid <= k THEN ISqrtBetween(k, mid, hi) ELSE ISqrtBetween(k, lo, mid)
ISqrt(k) == ISqrtBetween(k, 0, IF k < 46340 THEN k + 1 ELSE 46341)
IsSquare(k) == k >= 0 /\ ISqrt(k) * ISqrt(k) = k
\* math.sqrt on the rationals whose root is rational
SqrtExact(a) == IsSquare(a[1]) /\ IsSquare(a[2])
RSqrt(a) == <<ISqrt(a[1]), ISqrt(a[2])>>

\* -------------------------------------------------------- geometry ----
Point(x, y) == [x |-> x, y |-> y]

\* Python list indexing p[k] for -Len(p) <= k < Len(p)
InRange(k, m) == -m <= k /\ k < m
Idx(s, k) == IF k >= 0 THEN s[k + 1] ELSE s[Len(s) + k + 1]

\* _cross_point raises ZeroDivisionError when p1.x = p2.x
cross_point_fails(p1, p2) == p1.x = p2.x
cross_point(p1, p2, x) ==
    Point(x, RAdd(RMul(RDiv(RSub(p2.y, p1.y), RSub(p2.x, p1.x)), RSub(x, p1.x)), p1.y))

RECURSIVE ShoelaceSum(_, _)
ShoelaceSum(q, i) ==
    IF i > Len(q) THEN R(0)
    ELSE LET j == IF i = 1 THEN Len(q) ELSE i - 1
         IN  RAdd(RMul(RAdd(q[j].x, q[i].x), RSub(q[j].y, q[i].y)), ShoelaceSum(q, i + 1))
\* q is the sequence of the polygon's point values
polygon_area(q) == RAbs(RDiv(ShoelaceSum(q, 1), R(2)))

\* left, right: pairs <<bottom, top>> of point values
trapezoid_area(left, right) ==
    LET a == RSub(left[2].y, left[1].y)
        b == RSub(right[2].y, right[1].y)
        h == RSub(right[1].x, left[1].x)
    IN  RDiv(RMul(RAdd(a, b), h), R(2))

\* precision = 1e-8; |a - b| <= 1 / PrecisionInv
PrecisionInv == 100000000
isclose(a, b) ==
    LET d == RAbs(RSub(a, b))
    IN  d[1] <= d[2] \div PrecisionInv

\* the pieces of _sep_trapeziod
sep_a(left) == RSub(left[2].y, left[1].y)
sep_b(right) == RSub(right[2].y, right[1].y)
sep_area(left, right) ==
    RDiv(RMul(RAdd(sep_a(left), sep_b(right)), RSub(right[1].x, left[1].x)), R(2))
\* the argument of sqrt (only evaluated when area # 0)
sep_radicand(left, right, des_area) ==
    LET a == sep_a(left)
        b == sep_b(right)
    IN  RAdd(RMul(a, a),
             RMul(RDiv(des_area, sep_area(left, right)), RSub(RMul(b, b), RMul(a, a))))
\* mutants of sep_lmd: a wrong denominator in the root branch; a forgotten
\* "- des_area" in the parallel branch
sep_lmd_bad_root(left, right, des_area) ==
    LET a == sep_a(left)
        b == sep_b(right)
        area == sep_area(left, right)
    IN  IF isclose(a, b)
        THEN RDiv(des_area, RSub(area, des_area))
        ELSE LET c == RSqrt(sep_radicand(left, right, des_area))
             IN  RDiv(RSub(c, a), RSub(b, a))
sep_lmd_bad_ratio(left, right, des_area) ==
    LET a == sep_a(left)
        b == sep_b(right)
        area == sep_area(left, right)
    IN  IF isclose(a, b)
        THEN RDiv(des_area, area)
        ELSE LET c == RSqrt(sep_radicand(left, right, des_area))
             IN  RDiv(RSub(c, a), RSub(b, c))
sep_lmd(left, right, des_area) ==
    LET a == sep_a(left)
        b == sep_b(right)
        area == sep_area(left, right)
    IN  IF isclose(a, b)
        THEN RDiv(des_area, RSub(area, des_area))
        ELSE LET c == RSqrt(sep_radicand(left, right, des_area))
             IN  RDiv(RSub(c, a), RSub(b, c))
\* how the call ends: "ok", an exception, or a square root that is not rational
sep_outcome(left, right, des_area) ==
    LET a == sep_a(left)
        b == sep_b(right)
        area == sep_area(left, right)
    IN  IF isclose(a, b)
        THEN IF RZero(RSub(area, des_area)) THEN "ZeroDivisionError"
             ELSE IF RZero(RAdd(R(1), sep_lmd(left, right, des_area)))
                  THEN "ZeroDivisionError" ELSE "ok"
        ELSE IF RZero(area) THEN "ZeroDivisionError"
             ELSE IF RLt(sep_radicand(left, right, des_area), R(0)) THEN "ValueError"
             ELSE IF ~SqrtExact(sep_radicand(left, right, des_area)) THEN "irrational"
             ELSE IF RZero(RSub(b, RSqrt(sep_radicand(left, right, des_area))))
                  THEN "ZeroDivisionError"
             ELSE IF RZero(RAdd(R(1), sep_lmd(left, right, des_area)))
                  THEN "ZeroDivisionError" ELSE "ok"
\* mutant of sep_trapeziod: a sign slip in the weighted mean
sep_trapeziod_sign(left, right, des_area) ==
    LET lmd == sep_lmd(left, right, des_area)
    IN  RDiv(RSub(left[1].x, RMul(lmd, right[1].x)), RAdd(R(1), lmd))
sep_trapeziod(left, right, des_area) ==
    LET lmd == sep_lmd(left, right, des_area)
    IN  RDiv(RAdd(left[1].x, RMul(lmd, right[1].x)), RAdd(R(1), lmd))

\* ----------------------------------------------------------- state ----
VARIABLES
    heap,       \* the Point objects: heap[a] is the value of the object at address a
    poly,       \* the caller's list (addresses)
    poly0,      \* the values of the caller's points when the call started
    entry,      \* the function called: "divide_polygon" or "_divide_polygon"
    n, idx, in_place,
    theta,      \* <<cos(theta), sin(theta)>> in divide_polygon
    p,          \* the list the sweep and the partitioner work on (addresses)
    pc,         \* position in the program, or how the call ended
    t, b, rt, rb, lt, lb, segs,                \* locals of _dividing_polygon_segs
    iters,      \* sweep iterations started
    consumed,   \* vertex positions a sweep cursor has advanced onto
    fresh,      \* the last sweep iteration advanced a cursor onto a new position
    area, des_area, cur_area, left_seg, i, res \* locals of _divide_polygon

sweepVars == <<t, b, rt, rb, lt, lb, segs, iters, consumed, fresh>>
partVars == <<area, des_area, cur_area, left_seg, i, res>>
callVars == <<poly, poly0, entry, n, idx, in_place>>
vars == <<heap, callVars, theta, p, pc, sweepVars, partVars>>

Vals(as) == [k \in 1..Len(as) |-> heap[as[k]]]
SegVal(h, s) == <<h[s[1]], h[s[2]]>>
Addrs(m) == [k \in 1..m |-> k]

\* ------------------------------------------------------- the inputs ----
Cross(o, u, v) ==
    RSub(RMul(RSub(u.x, o.x), RSub(v.y, o.y)), RMul(RSub(u.y, o.y), RSub(v.x, o.x)))
Succ(k, m) == IF k = m THEN 1 ELSE k + 1

\* a convex counter-clockwise polygon of positive area (collinear vertices allowed)
Convex(q) ==
    /\ Len(q) >= 3
    /\ \A j, k \in 1..Len(q) : j # k => q[j] # q[k]
    /\ \A j, k \in 1..Len(q) : RLe(R(0), Cross(q[j], q[Succ(j, Len(q))], q[k]))
    /\ \E j, k \in 1..Len(q) : RLt(R(0), Cross(q[j], q[Succ(j, Len(q))], q[k]))
\* canonical frame: the edge p[-1]p[0] is parallel to the y axis and is the
\* only part of the polygon at the minimum x
Canonical(q) ==
    /\ Convex(q)
    /\ q[Len(q)].x = q[1].x
    /\ \A k \in 2..(Len(q) - 1) : RLt(q[1].x, q[k].x)

MidGrid == {Point(R(x), R(y)) : x \in 1..MaxX, y \in (-LowY)..MaxY}
\* the vertex lists p[0] = (0,0), ..., with k more vertices, that never turn right
RECURSIVE Chains(_)
Chains(k) ==
    IF k = 0 THEN {<<Point(R(0), R(0))>>}
    ELSE UNION {{Append(c, v) :
                    v \in {w \in MidGrid :
                              Len(c) >= 2 => RLe(R(0), Cross(c[Len(c) - 1], c[Len(c)], w))}} :
                c \in Chains(k - 1)}
CanonListsOf(maxVerts) ==
    {q \in UNION {{c \o <<Point(R(0), R(h))>> : c \in Chains(k)} :
                      k \in 1..(maxVerts - 2), h \in 1..MaxH} :
        Canonical(q)}
CanonLists == CanonListsOf(MaxVerts)

AnyGrid == {Point(R(x), R(y)) : x \in 0..MaxAnyX, y \in 0..MaxAnyY}
AnyLists == UNION {[1..k -> AnyGrid] : k \in 0..MaxAnyLen}

InitLocals ==
    /\ theta = <<R(1), R(0)>>
    /\ t = 0 /\ b = 0 /\ rt = 0 /\ rb = 0 /\ lt = 0 /\ lb = 0
    /\ segs = <<>> /\ iters = 0 /\ consumed = {} /\ fresh = FALSE
    /\ area = R(0) /\ des_area = R(0) /\ cur_area = R(0)
    /\ left_seg = <<0, 0>> /\ i = 0 /\ res = <<>>

Rect(w, h) == <<Point(R(0), R(0)), Point(R(w), R(0)), Point(R(w), R(h)), Point(R(0), R(h))>>
RectLists == {Rect(w, h) : w \in 1..MaxRectW, h \in 1..MaxRectH}

\* _divide_polygon(p, n) on a canonical convex polygon, n >= 1
Init ==
    /\ heap \in CanonLists \cup RectLists
    /\ poly = Addrs(Len(heap)) /\ poly0 = heap /\ p = poly
    /\ entry = "_divide_polygon" /\ pc = "_divide_polygon"
    /\ n \in 1..MaxN /\ idx = 0 /\ in_place = TRUE
    /\ InitLocals

\* _divide_polygon(p, n) on any list of points and any n
InitAny ==
    /\ heap \in AnyLists
    /\ poly = Addrs(Len(heap)) /\ poly0 = heap /\ p = poly
    /\ entry = "_divide_polygon" /\ pc = "_divide_polygon"
    /\ n \in (-1)..2 /\ idx = 0 /\ in_place = TRUE
    /\ InitLocals

\* ------------------------------------------ _dividing_polygon_segs ----
\* lines 51-56
SweepInit ==
    /\ pc = "_divide_polygon"
    /\ IF Len(p) = 0
       THEN pc' = "IndexError" /\ UNCHANGED sweepVars
       ELSE /\ pc' = "sweep"
            /\ t' = -1 /\ b' = 0
            /\ rt' = Idx(p, -1) /\ rb' = Idx(p, 0)
            /\ lt' = Idx(p, -1) /\ lb' = Idx(p, 0)
            /\ segs' = <<>>
            /\ UNCHANGED <<iters, consumed, fresh>>
    /\ UNCHANGED <<heap, callVars, theta, p, partVars>>

\* mutant of SweepBranch: "<=" for "<", so a tie takes the first branch
SweepBranchLe(ux, lx) ==
    IF RLe(ux, lx) THEN "upper" ELSE "lower"
\* the comparison of lines 58 and 62
SweepBranch(ux, lx) ==
    IF RLt(ux, lx) THEN "upper" ELSE IF RLt(lx, ux) THEN "lower" ELSE "tie"
\* mutant of NextT: "t = t - 1" missing from the first branch
NextTStuck(br, tt) == IF br = "tie" THEN tt - 1 ELSE tt
\* the cursor updates of lines 61, 65, 69, 70
NextT(br, tt) == IF br \in {"upper", "tie"} THEN tt - 1 ELSE tt
NextB(br, bb) == IF br \in {"lower", "tie"} THEN bb + 1 ELSE bb
\* line 71
SweepBreak(top, bottom) == RLt(top.y, bottom.y)

\* one iteration of the loop of lines 57-75
SweepStep ==
    /\ pc = "sweep"
    /\ iters' = iters + 1
    /\ IF ~InRange(t - 1, Len(p)) \/ ~InRange(b + 1, Len(p))
       THEN /\ pc' = "IndexError"
            /\ UNCHANGED <<heap, t, b, rt, rb, lt, lb, segs, consumed, fresh>>
       ELSE LET ua == Idx(p, t - 1)
                la == Idx(p, b + 1)
                br == SweepBranch(heap[ua].x, heap[la].x)
                new == Len(heap) + 1
            IN  IF \/ br = "upper" /\ cross_point_fails(heap[lb], heap[la])
                   \/ br = "lower" /\ cross_point_fails(heap[lt], heap[ua])
                THEN /\ pc' = "ZeroDivisionError"
                     /\ rt' = IF br = "upper" THEN ua ELSE rt
                     /\ UNCHANGED <<heap, t, b, rb, lt, lb, segs, consumed, fresh>>
                ELSE /\ heap' = CASE br = "upper" ->
                                       Append(heap, cross_point(heap[lb], heap[la], heap[ua].x))
                                  [] br = "lower" ->
                                       Append(heap, cross_point(heap[lt], heap[ua], heap[la].x))
                                  [] OTHER -> heap
                     /\ rt' = IF br = "lower" THEN new ELSE ua
                     /\ rb' = IF br = "upper" THEN new ELSE la
                     /\ t' = NextT(br, t)
                     /\ b' = NextB(br, b)
                     /\ LET adv == (IF t' # t THEN {(t - 1) % Len(p)} ELSE {})
                                       \cup (IF b' # b THEN {(b + 1) % Len(p)} ELSE {})
                        IN  /\ consumed' = consumed \cup adv
                            /\ fresh' = (adv \ consumed # {})
                     /\ IF SweepBreak(heap'[rt'], heap'[rb'])
                        THEN pc' = "area" /\ UNCHANGED <<segs, lt, lb>>
                        ELSE /\ pc' = "sweep"
                             /\ segs' = Append(segs, <<rb', rt'>>)
                             /\ lt' = rt' /\ lb' = rb'
    /\ UNCHANGED <<callVars, theta, p, partVars>>

\* ------------------------------------------------- _divide_polygon ----
\* lines 154-158 (line 153 is the sweep above)
AreaStep ==
    /\ pc = "area"
    /\ area' = polygon_area(Vals(p))
    /\ IF n = 0
       THEN pc' = "ZeroDivisionError" /\ UNCHANGED <<des_area, cur_area, left_seg, i, res>>
       ELSE /\ des_area' = RDiv(area', R(n))
            /\ cur_area' = R(0)
            /\ left_seg' = <<Idx(p, 0), Idx(p, -1)>>
            /\ i' = 0
            /\ res' = <<>>
            /\ pc' = "partition"
    /\ UNCHANGED <<heap, callVars, theta, p, sweepVars>>

\* mutant of LoopCond: off by one in the number of cuts
LoopCondOffByOne(ii, nsegs, nres, nn) == ii < nsegs /\ nres < nn
\* line 160
LoopCond(ii, nsegs, nres, nn) == ii < nsegs /\ nres < nn - 1

Returned == IF entry = "divide_polygon" THEN "rotate_back" ELSE "done"

\* one iteration of the loop of lines 160-182, or its exit (line 184)
PartitionStep ==
    /\ pc = "partition"
    /\ IF ~LoopCond(i, Len(segs), Len(res), n)
       THEN pc' = Returned /\ UNCHANGED <<heap, partVars>>
       ELSE LET right_seg == segs[i + 1]
                L == SegVal(heap, left_seg)
                Rt == SegVal(heap, right_seg)
                trap_area == trapezoid_area(L, Rt)
                delta_area == RSub(des_area, RAdd(trap_area, cur_area))
                want == RSub(des_area, cur_area)
            IN  IF RLt(R(0), delta_area)
                THEN /\ left_seg' = right_seg
                     /\ cur_area' = RAdd(cur_area, trap_area)
                     /\ i' = i + 1
                     /\ pc' = "partition"
                     /\ UNCHANGED <<heap, area, des_area, res>>
                ELSE IF RLt(delta_area, R(0))
                THEN IF sep_outcome(L, Rt, want) # "ok"
                     THEN pc' = sep_outcome(L, Rt, want) /\ UNCHANGED <<heap, partVars>>
                     ELSE IF cross_point_fails(L[1], Rt[1]) \/ cross_point_fails(L[2], Rt[2])
                     THEN pc' = "ZeroDivisionError" /\ UNCHANGED <<heap, partVars>>
                     ELSE LET x == sep_trapeziod(L, Rt, want)
                              bott == cross_point(L[1], Rt[1], x)
                              top == cross_point(L[2], Rt[2], x)
                          IN  /\ heap' = heap \o <<bott, top>>
                              /\ left_seg' = <<Len(heap) + 1, Len(heap) + 2>>
                              /\ res' = Append(res, left_seg')
                              /\ cur_area' = R(0)
                              /\ pc' = "partition"
                              /\ UNCHANGED <<area, des_area, i>>
                ELSE /\ left_seg' = right_seg
                     /\ res' = Append(res, left_seg')
                     /\ cur_area' = R(0)
                     /\ i' = i + 1
                     /\ pc' = "partition"
                     /\ UNCHANGED <<heap, area, des_area>>
    /\ UNCHANGED <<callVars, theta, p, sweepVars>>

\* -------------------------------------------------- divide_polygon ----
\* _rotate_coord: the points of the list are rewritten one after the other
rotate_point(pt, th) ==
    Point(RAdd(RMul(th[1], pt.x), RMul(th[2], pt.y)),
          RAdd(RMul(RNeg(th[2]), pt.x), RMul(th[1], pt.y)))
RECURSIVE rotate_coord(_, _, _)
rotate_coord(h, origin, th) ==
    IF origin = <<>> THEN h
    ELSE rotate_coord([h EXCEPT ![Head(origin)] = rotate_point(h[Head(origin)], th)],
                      Tail(origin), th)

\* mutant of WorkingList: the copy is ignored and the caller's points are used
WorkingListAliased(pl, inpl, h) == pl
\* lines 213-216: the list the call works on, and the heap that holds its points
WorkingList(pl, inpl, h) ==
    IF inpl THEN pl ELSE [k \in 1..Len(pl) |-> Len(h) + k]
WorkingHeap(pl, inpl, h) ==
    IF inpl THEN h ELSE h \o [k \in 1..Len(pl) |-> h[pl[k]]]

\* line 218: theta = atan2(dy, dx) - pi/2, kept as <<cos(theta), sin(theta)>>;
\* atan2(0, 0) is 0
EdgeLenSq(dx, dy) == RAdd(RMul(dx, dx), RMul(dy, dy))
Theta(dx, dy) ==
    IF RZero(dx) /\ RZero(dy) THEN <<R(0), R(-1)>>
    ELSE LET len == RSqrt(EdgeLenSq(dx, dy))
         IN  <<RDiv(dy, len), RNeg(RDiv(dx, len))>>
MinusTheta(th) == <<th[1], RNeg(th[2])>>

\* line 221: p[idx:] + p[:idx]
Reindex(q, k) ==
    LET m == Len(q)
        s == IF k >= 0 THEN (IF k > m THEN m ELSE k)
             ELSE (IF m + k < 0 THEN 0 ELSE m + k)
    IN  SubSeq(q, s + 1, m) \o SubSeq(q, 1, s)

\* lines 213-221
Enter ==
    /\ pc = "divide_polygon"
    /\ LET w == WorkingList(poly, in_place, heap)
           h0 == WorkingHeap(poly, in_place, heap)
       IN  IF ~InRange(idx - 1, Len(w)) \/ ~InRange(idx, Len(w))
           THEN pc' = "IndexError" /\ p' = w /\ heap' = h0 /\ UNCHANGED theta
           ELSE LET dx == RSub(h0[Idx(w, idx - 1)].x, h0[Idx(w, idx)].x)
                    dy == RSub(h0[Idx(w, idx - 1)].y, h0[Idx(w, idx)].y)
                IN  IF ~SqrtExact(EdgeLenSq(dx, dy))
                    THEN pc' = "irrational" /\ p' = w /\ heap' = h0 /\ UNCHANGED theta
                    ELSE /\ theta' = Theta(dx, dy)
                         /\ heap' = rotate_coord(h0, w, theta')
                         /\ p' = Reindex(w, idx)
                         /\ pc' = "_divide_polygon"
    /\ UNCHANGED <<callVars, sweepVars, partVars>>

RECURSIVE rotate_lines(_, _, _)
rotate_lines(h, lines, th) ==
    IF lines = <<>> THEN h
    ELSE rotate_lines(rotate_coord(h, Head(lines), th), Tail(lines), th)

\* lines 226-229
RotateBack ==
    /\ pc = "rotate_back"
    /\ heap' = rotate_lines(heap, res, MinusTheta(theta))
    /\ pc' = "done"
    /\ UNCHANGED <<callVars, theta, p, sweepVars, partVars>>

\* divide_polygon(poly, n, idx, in_place) on a convex polygon
FrameLists == CanonListsOf(MaxFrameVerts)
InitFrame ==
    /\ heap \in FrameLists
    /\ poly = Addrs(Len(heap)) /\ poly0 = heap /\ p = <<>>
    /\ entry = "divide_polygon" /\ pc = "divide_polygon"
    /\ n \in 0..MaxFrameN /\ idx \in (-1)..Len(heap) /\ in_place \in BOOLEAN
    /\ InitLocals

NextCore == SweepInit \/ SweepStep \/ AreaStep \/ PartitionStep

Next == NextCore
Spec == Init /\ [][Next]_vars

NextAny == NextCore
SpecAny == InitAny /\ [][NextAny]_vars

NextFrame == Enter \/ NextCore \/ RotateBack
SpecFrame == InitFrame /\ [][NextFrame]_vars

\* ------------------------------------------------------ the claims ----
Errors == {"IndexError", "ZeroDivisionError", "ValueError"}

\* the y of the line through u and v at abscissa x (u.x # v.x)
LineAt(u, v, x) ==
    RAdd(u.y, RDiv(RMul(RSub(x, u.x), RSub(v.y, u.y)), RSub(v.x, u.x)))
\* the part of the edge u -> v with abscissa <= x contributes -(mean y) * dx
ClipTo(u, v, x) == IF RLe(u.x, x) THEN u ELSE Point(x, LineAt(u, v, x))
EdgeAreaLeft(u, v, x) ==
    IF RLt(x, u.x) /\ RLt(x, v.x) THEN R(0)
    ELSE LET cu == ClipTo(u, v, x)
             cv == ClipTo(v, u, x)
         IN  RNeg(RMul(RDiv(RAdd(cu.y, cv.y), R(2)), RSub(cv.x, cu.x)))
RECURSIVE AreaLeftFrom(_, _, _)
AreaLeftFrom(q, x, k) ==
    IF k > Len(q) THEN R(0)
    ELSE RAdd(EdgeAreaLeft(q[k], q[Succ(k, Len(q))], x), AreaLeftFrom(q, x, k + 1))
\* the area of the part of the counter-clockwise polygon q with abscissa <= x
AreaLeft(q, x) == AreaLeftFrom(q, x, 1)

\* the y of the boundary points of q at abscissa x
BoundaryYs(q, x) ==
    UNION {LET u == q[k]
               v == q[Succ(k, Len(q))]
           IN  IF u.x = v.x THEN (IF u.x = x THEN {u.y, v.y} ELSE {})
               ELSE IF (RLe(u.x, x) /\ RLe(x, v.x)) \/ (RLe(v.x, x) /\ RLe(x, u.x))
                    THEN {LineAt(u, v, x)} ELSE {}
           : k \in 1..Len(q)}
ChordLow(q, x) == CHOOSE y \in BoundaryYs(q, x) : \A z \in BoundaryYs(q, x) : RLe(y, z)
ChordHigh(q, x) == CHOOSE y \in BoundaryYs(q, x) : \A z \in BoundaryYs(q, x) : RLe(z, y)
XMax(q) == CHOOSE x \in {q[k].x : k \in 1..Len(q)} : \A k \in 1..Len(q) : RLe(q[k].x, x)

\* the abscissa of the k-th boundary of the regions: the reference edge, the
\* returned segments, the far end of the polygon
CutX(k) ==
    IF k = 0 THEN poly0[1].x
    ELSE IF k <= Len(res) THEN heap[res[k][1]].x ELSE XMax(poly0)
RegionArea(k) == RSub(AreaLeft(poly0, CutX(k)), AreaLeft(poly0, CutX(k - 1)))
IsChord(s) ==
    /\ heap[s[1]] = Point(heap[s[1]].x, ChordLow(poly0, heap[s[1]].x))
    /\ heap[s[2]] = Point(heap[s[1]].x, ChordHigh(poly0, heap[s[1]].x))

\* C1: when _divide_polygon returns, every returned segment is the chord of the
\* polygon at its abscissa, and the n regions the segments delimit each have
\* area _polygon_area(p) / n and together have area _polygon_area(p)
C1_EqualAreas ==
    pc = "done" =>
        /\ Len(res) = n - 1
        /\ \A k \in 1..Len(res) : IsChord(res[k])
        /\ \A k \in 1..n : RegionArea(k) = RDiv(polygon_area(poly0), R(n))
        /\ RSub(AreaLeft(poly0, CutX(n)), AreaLeft(poly0, CutX(0))) = polygon_area(poly0)
\* two regions, the cut computed by the square-root formula: it is none of the
\* sweep's segments and its span differs from the span of every one of them
\* and of the reference edge
Span(s) == RSub(heap[s[2]].y, heap[s[1]].y)
C1_Witness ==
    /\ pc = "done" /\ n = 2 /\ Len(res) = 1 /\ Len(poly0) = 5
    /\ \A j \in 1..Len(segs) : segs[j] # res[1] /\ Span(segs[j]) # Span(res[1])
    /\ Span(res[1]) # RSub(poly0[Len(poly0)].y, poly0[1].y)

\* C2: _divide_polygon raises nothing and returns exactly n-1 segments; for
\* n = 1 the loop body never runs, so no cut is produced and the list is empty
C2_Count ==
    /\ pc \notin Errors
    /\ pc = "done" => Len(res) = n - 1
    /\ (n = 1 /\ pc \in {"partition", "done"}) =>
           res = <<>> /\ i = 0 /\ left_seg = <<Idx(p, 0), Idx(p, -1)>>
C2_Witness == pc = "done" /\ n = 4 /\ Len(res) = 3 /\ Len(segs) >= 3

\* C3: the segments in res are strictly increasing in x and every one of them
\* lies strictly to the right of the reference edge p[-1]p[0]
C3_Increasing ==
    \A k \in 1..Len(res) :
        /\ heap[res[k][1]].x = heap[res[k][2]].x
        /\ RLt(poly0[1].x, heap[res[k][1]].x)
        /\ k > 1 => RLt(heap[res[k - 1][1]].x, heap[res[k][1]].x)
C3_Witness == pc = "done" /\ Len(res) = 3 /\ Len(poly0) = 5

\* C4: for the rectangle (0,0),(w,0),(w,h),(0,h) the call returns, in order,
\* the n-1 segments from (k*w/n, 0) to (k*w/n, h), k = 1..n-1
IsRect(q) ==
    /\ Len(q) = 4
    /\ q[1] = Point(R(0), R(0)) /\ q[2].y = R(0) /\ q[3].x = q[2].x
    /\ q[4].x = R(0) /\ q[4].y = q[3].y /\ RLt(R(0), q[2].x) /\ RLt(R(0), q[3].y)
C4_Rectangle ==
    IsRect(poly0) =>
        /\ pc # "irrational"
        /\ pc = "done" =>
              /\ Len(res) = n - 1
              /\ \A k \in 1..Len(res) :
                    LET x == RDiv(RMul(R(k), poly0[2].x), R(n))
                    IN  /\ heap[res[k][1]] = Point(x, R(0))
                        /\ heap[res[k][2]] = Point(x, poly0[3].y)
\* the square of side 4 cut in two, and a rectangle cut in four
C4_Witness ==
    /\ pc = "done" /\ IsRect(poly0) /\ poly0[3] = Point(R(4), R(4))
    /\ n = 2 /\ heap[res[1][1]] = Point(R(2), R(0)) /\ heap[res[1][2]] = Point(R(2), R(4))

\* C5: a divisor n <= 0 is rejected before anything is computed: the sweep never
\* starts, no area is evaluated and no list is returned
C5_RejectsBadDivisor ==
    n <= 0 => pc \in {"_divide_polygon", "InvalidArgument"} /\ iters = 0

\* C6: a polygon with fewer than 3 vertices or with zero area is signalled as
\* invalid input: the call neither returns a list nor fails with an unrelated
\* exception
Degenerate(q) == Len(q) < 3 \/ RZero(polygon_area(q))
C6_RejectsDegenerate ==
    Degenerate(poly0) => pc \notin Errors \cup {"done"}

\* C7: with in_place = False the caller's list and the coordinates of every
\* Point in it are, at every point of the call, what they were before it
C7_InputUntouched ==
    in_place = FALSE =>
        /\ Len(poly) = Len(poly0)
        /\ \A k \in 1..Len(poly) : poly[k] = k /\ heap[poly[k]] = poly0[k]
\* a call that rotated its working copy by a half or quarter turn and returned a cut
C7_Witness ==
    /\ pc = "done" /\ in_place = FALSE /\ Len(res) >= 1
    /\ theta # <<R(1), R(0)>>
    /\ \E k \in 1..Len(p) : heap[p[k]] \notin {poly0[j] : j \in 1..Len(poly0)}

\* C8 as stated: the sweep of a canonical convex polygon of m vertices never
\* fails, takes at most m iterations, and every iteration advances a cursor
\* onto a vertex no cursor had advanced onto before
C8_EveryIterationFresh ==
    /\ pc \notin Errors
    /\ iters <= Len(p)
    /\ iters >= 1 => fresh
\* C8 amended: ... and every iteration that appends a segment (every iteration
\* but the final, breaking one) advances a cursor onto such a vertex
C8_SweepTerminates ==
    /\ pc \notin Errors
    /\ iters <= Len(p)
    /\ (iters >= 1 /\ pc = "sweep") => fresh
C8_Witness == pc = "area" /\ Len(p) = 5 /\ iters = 4 /\ Len(segs) = 3

\* C9: the segments of _dividing_polygon_segs are strictly increasing in x, the
\* first one strictly to the right of the reference edge
C9_SegsIncreasing ==
    \A k \in 1..Len(segs) :
        IF k = 1 THEN RLt(poly0[1].x, heap[segs[1][1]].x)
        ELSE RLt(heap[segs[k - 1][1]].x, heap[segs[k][1]].x)

\* C10: for any list of m >= 1 points the sweep starts at most 2m - 1
\* iterations: t never goes below -m, b never above m - 1, and every completed
\* iteration decrements t or increments b
C10_SweepBounded ==
    /\ [](Len(p) >= 1 => iters <= 2 * Len(p) - 1 /\ t >= -Len(p) /\ b <= Len(p) - 1)
    /\ [][(pc = "sweep" /\ pc' \in {"sweep", "area"}) =>
              (t' = t - 1 /\ b' = b) \/ (t' = t /\ b' = b + 1) \/ (t' = t - 1 /\ b' = b + 1)]_vars
\* a malformed list whose sweep runs on past the far end until an index fails
C10_Witness == pc = "IndexError" /\ iters > Len(p) /\ ~Convex(poly0)
====
